---- MODULE Spec2Model ----
(***************************************************************************)
(* Arkanoid (src/main.rs): the paddle, the ball, the shards and the        *)
(* per-frame simulation step, with the collision detector and the          *)
(* reflection as operators.                                                *)
(*                                                                         *)
(* Numbers.  The program computes in f32.  The model computes in exact     *)
(* rational arithmetic, a rational being a pair <<num, den>> in lowest     *)
(* terms with den > 0, and <<0, 0>> standing for NaN (the result of 0/0).  *)
(* A length (the result of Vector2::length, a square root) is carried by   *)
(* its square; a unit vector d / |d| is carried as the record              *)
(* [x, y, q] that denotes (x, y) / sqrt(q), with (x, y) the primitive      *)
(* integer vector in the direction of d and q = x*x + y*y.  Products of    *)
(* two components of such a vector are rational, which is all `reflect`    *)
(* needs.  Rounding of f32 is not modelled.                                *)
(***************************************************************************)
EXTENDS Integers, Sequences, FiniteSets, TLC

VARIABLES
    pad,      \* Game.pad.poly: the paddle's four vertices
    pos,      \* Game.ball.pos
    radius,   \* Game.ball.radius
    speed,    \* Game.ball.speed
    hp,       \* Game.shards[i].hp, in storage order
    hp0,      \* the hit-points main() drew for each shard
    hits,     \* the ids written by eprintln!("hit shard {}") in the last frame
    frame,    \* iterations of main's loop so far
    poly,     \* the argument `poly` of a call of Ball::collides
    n,        \* the Option<Vector2> that call returned
    pc,       \* position of the calling code
    v0        \* the velocity before it was reflected

vars == <<pad, pos, radius, speed, hp, hp0, hits, frame, poly, n, pc, v0>>

----------------------------------------------------------------------------
(* Program constants *)

W == 1024
H == 768
PAD_W == 60
PAD_H == 10
BALL_R == 10

(* Bounds of the model *)

MaxFrames == 150
MaxDen == 2
GridCols == 2
GridRows == 2

----------------------------------------------------------------------------
(* f32 arithmetic, exact *)

Abs(a) == IF a < 0 THEN -a ELSE a

RECURSIVE GCD(_, _)
GCD(a, b) == IF b = 0 THEN a ELSE GCD(b, a % b)

NaN == <<0, 0>>

IsNaN(a) == a[2] = 0

\* n/d in lowest terms; a zero denominator gives NaN (the only division by
\* zero the program can perform is 0/0, in closest_point)
Q(num, den) ==
    IF den = 0 THEN NaN
    ELSE LET g == GCD(Abs(num), Abs(den))
             s == IF den < 0 THEN -1 ELSE 1
         IN  <<(s * num) \div g, (s * den) \div g>>

I(k) == <<k, 1>>

\* (integers are added, subtracted and multiplied as integers)
Add(a, b) == IF a[2] = 1 /\ b[2] = 1 THEN <<a[1] + b[1], 1>>
             ELSE IF IsNaN(a) \/ IsNaN(b) THEN NaN
             ELSE Q(a[1] * b[2] + b[1] * a[2], a[2] * b[2])

Sub(a, b) == IF a[2] = 1 /\ b[2] = 1 THEN <<a[1] - b[1], 1>>
             ELSE IF IsNaN(a) \/ IsNaN(b) THEN NaN
             ELSE Q(a[1] * b[2] - b[1] * a[2], a[2] * b[2])

Mul(a, b) == IF a[2] = 1 /\ b[2] = 1 THEN <<a[1] * b[1], 1>>
             ELSE IF IsNaN(a) \/ IsNaN(b) THEN NaN
             ELSE Q(a[1] * b[1], a[2] * b[2])

Div(a, b) == IF IsNaN(a) \/ IsNaN(b) THEN NaN
             ELSE Q(a[1] * b[2], a[2] * b[1])

Neg(a) == <<-a[1], a[2]>>

\* comparisons: every comparison with NaN is false
Lt(a, b) == ~IsNaN(a) /\ ~IsNaN(b) /\ a[1] * b[2] < b[1] * a[2]
Le(a, b) == ~IsNaN(a) /\ ~IsNaN(b) /\ a[1] * b[2] <= b[1] * a[2]
Gt(a, b) == Lt(b, a)
Ge(a, b) == Le(b, a)

\* f32::clamp: NaN stays NaN
Clamp(t, lo, hi) == IF IsNaN(t) THEN NaN
                    ELSE IF Lt(t, lo) THEN lo
                    ELSE IF Gt(t, hi) THEN hi
                    ELSE t

----------------------------------------------------------------------------
(* Vector2 *)

Vec(x, y) == [x |-> x, y |-> y]

V(ix, iy) == Vec(I(ix), I(iy))

VAdd(a, b) == Vec(Add(a.x, b.x), Add(a.y, b.y))

VSub(a, b) == Vec(Sub(a.x, b.x), Sub(a.y, b.y))

VScale(a, t) == Vec(Mul(a.x, t), Mul(a.y, t))

Dot(a, b) == Add(Mul(a.x, b.x), Mul(a.y, b.y))

\* Vector2::length, carried by its square
Length2(a) == Dot(a, a)

\* the vector (x, y) / sqrt(q)
Scaled(x, y, q) == [x |-> x, y |-> y, q |-> q]

\* d / |d| for d # 0 (delta * (1.0 / dist), and Vector2::normalized): the
\* primitive integer vector in the direction of d, over its length
Unit(d) ==
    LET m  == d.x[2] * d.y[2]
        ix == d.x[1] * d.y[2]
        iy == d.y[1] * d.x[2]
        g  == GCD(Abs(ix), Abs(iy))
        px == ix \div g
        py == iy \div g
    IN  IF m = 0 \/ g = 0 THEN Scaled(NaN, NaN, NaN)
        ELSE Scaled(I(px), I(py), I(px * px + py * py))

\* Vector2::new(1.0, 0.0)
UnitX == Scaled(I(1), I(0), I(1))

\* Option<Vector2>
None == [some |-> FALSE, v |-> Scaled(I(0), I(0), I(1))]

Some(v) == [some |-> TRUE, v |-> v]

----------------------------------------------------------------------------
(* Ball::closest_point and Ball::collides *)

\* a + d * t.clamp(0.0, 1.0) with t = (p - a).dot(d) / d.dot(d)
Project(p, a, d) ==
    VAdd(a, VScale(d, Clamp(Div(Dot(VSub(p, a), d), Dot(d, d)), I(0), I(1))))

closest_point(p, a, b) == Project(p, a, VSub(b, a))

\* best_pen: -INFINITY, NaN, or radius - dist with dist carried by its square
NegInf == [kind |-> "neginf", sq |-> I(0)]

Pen(dsq) == IF IsNaN(dsq) THEN [kind |-> "nan", sq |-> I(0)]
            ELSE [kind |-> "num", sq |-> dsq]

\* pen <= best_pen
PenLe(pen, best) ==
    /\ pen.kind = "num"
    /\ best.kind = "num"
    /\ Ge(pen.sq, best.sq)

\* variant: best_pen >= 0.0
PenNotNegative(best, r) == best.kind = "num" /\ Le(best.sq, Mul(r, r))

\* best_pen > 0.0
PenPositive(best, r) == best.kind = "num" /\ Lt(best.sq, Mul(r, r))

\* variant: the normal at distance zero is (0, -1)
EdgeNormalUp(delta, dsq) ==
    IF Gt(dsq, I(0)) THEN Unit(delta) ELSE Scaled(I(0), I(-1), I(1))

\* best_n = if dist > 0.0 { delta * (1.0 / dist) } else { (1, 0) }
EdgeNormal(delta, dsq) == IF Gt(dsq, I(0)) THEN Unit(delta) ELSE UnitX

\* the tests on an edge's delta and dist (squared: dsq), updating best
EdgeBest(r, delta, dsq, best) ==
    IF Gt(dsq, Mul(r, r)) THEN best
    ELSE IF PenLe(Pen(dsq), best.pen) THEN best
    ELSE [pen |-> Pen(dsq), n |-> EdgeNormal(delta, dsq)]

\* let dist = delta.length()
EdgeDelta(r, delta, best) == EdgeBest(r, delta, Length2(delta), best)

\* one iteration of the loop over the edges: cp, then delta = pos - cp
EdgeStep(p, r, a, b, best) ==
    EdgeDelta(r, VSub(p, closest_point(p, a, b)), best)

RECURSIVE EdgeLoop(_, _, _, _, _)
EdgeLoop(p, r, ply, i, best) ==
    IF i > Len(ply) THEN best
    ELSE EdgeLoop(p, r, ply, i + 1,
                  EdgeStep(p, r, ply[i], ply[(i % Len(ply)) + 1], best))

\* Some(best_n.normalized()) or None
Contact(best, r) ==
    IF PenPositive(best.pen, r)
    THEN Some(Scaled(best.n.x, best.n.y,
                     Add(Mul(best.n.x, best.n.x), Mul(best.n.y, best.n.y))))
    ELSE None

collides(p, r, ply) ==
    IF Len(ply) < 2 THEN None
    ELSE Contact(EdgeLoop(p, r, ply, 1,
                          [pen |-> NegInf, n |-> Scaled(I(0), I(0), I(1))]), r)

----------------------------------------------------------------------------
(* reflect *)

\* variant: v - n (v . n), the factor 2 left out
reflect_once(v, nv) ==
    LET d == Add(Mul(v.x, nv.x), Mul(v.y, nv.y))
    IN  Vec(Sub(v.x, Div(Mul(nv.x, d), nv.q)),
            Sub(v.y, Div(Mul(nv.y, d), nv.q)))

\* v - 2 n (v . n); for n = (x, y) / sqrt(q) the product of n's component
\* with (v . n) is the product of the carried numbers over q
reflect(v, nv) ==
    LET d == Add(Mul(v.x, nv.x), Mul(v.y, nv.y))
    IN  Vec(Sub(v.x, Div(Mul(I(2), Mul(nv.x, d)), nv.q)),
            Sub(v.y, Div(Mul(I(2), Mul(nv.y, d)), nv.q)))

----------------------------------------------------------------------------
(* Pad::translate *)

translate(ply, delta) ==
    IF Lt(delta.x, I(0)) /\ Le(ply[1].x, I(0)) THEN ply
    ELSE IF Gt(delta.x, I(0)) /\ Ge(ply[2].x, I(W)) THEN ply
    ELSE [i \in 1..Len(ply) |-> VAdd(ply[i], delta)]

----------------------------------------------------------------------------
(* main: the shards, the paddle and the ball as constructed *)

\* hp: rng.random_range(1..5)
HpEnd == 5

NumShards == GridCols * GridRows

\* The Voronoi cells partition the bounding box [0, W] x [0, H/3].  The
\* model takes the partition of a regular grid of sites, whose cells are
\* rectangles; vertices in the order the paddle uses (bottom-left first).
Cell(c, r) ==
    LET x0 == ((c - 1) * W) \div GridCols
        x1 == (c * W) \div GridCols
        y0 == ((r - 1) * (H \div 3)) \div GridRows
        y1 == (r * (H \div 3)) \div GridRows
    IN  <<V(x0, y1), V(x1, y1), V(x1, y0), V(x0, y0)>>

\* Shard.edges of shard i (id i - 1), row by row
shardEdges ==
    [i \in 1..NumShards |->
        Cell(((i - 1) % GridCols) + 1, ((i - 1) \div GridCols) + 1)]

InitPad ==
    <<V(W \div 2, H), V(W \div 2 + PAD_W, H),
      V(W \div 2 + PAD_W, H - PAD_H), V(W \div 2, H - PAD_H)>>

InitPos == V(W \div 2 + PAD_W \div 2, H - PAD_H - 1 - BALL_R)

\* speed: (random_range(-10.0..10.0), random_range(-10.0..0.0)); a few draws
InitSpeeds ==
    { V(0, -10), Vec(Q(-1, 2), I(-10)), V(-10, -10), Vec(I(9), Q(-15, 2)) }

\* hp of every shard drawn from 1..4; one draw
InitHps == { [i \in 1..NumShards |-> ((NumShards - i) % (HpEnd - 1)) + 1] }

\* rl.get_mouse_delta().x of a frame
MouseDeltas == { -480, 0, 480 }

----------------------------------------------------------------------------
(* Game::update *)

\* the two boundary tests after the ball has advanced
WallBounce(p, r, v) ==
    LET vx == IF Le(p.x, r) \/ Ge(p.x, Sub(I(W), r)) THEN Neg(v.x) ELSE v.x
        vy == IF Le(p.y, r) \/ Ge(p.y, Sub(I(H), r)) THEN Neg(v.y) ELSE v.y
    IN  Vec(vx, vy)

\* if let Some(n) = self.ball.collides(&self.pad.poly)
ReflectIfSome(c, v) == IF c.some THEN reflect(v, c.v) ELSE v

PadBounce(p, r, pd, v) == ReflectIfSome(collides(p, r, pd), v)

\* variant of OnContact: the hit-point is taken whether or not there is a
\* contact
OnContactDamageAll(c, i, st) ==
    IF c.some
    THEN [st EXCEPT !.speed = reflect(st.speed, c.v),
                    !.hp = [st.hp EXCEPT ![i] = @ - 1],
                    !.hits = Append(st.hits, i - 1)]
    ELSE [st EXCEPT !.hp = [st.hp EXCEPT ![i] = @ - 1]]

\* if let Some(n) = c { reflect; s.hp -= 1 } for shard i
OnContact(c, i, st) ==
    IF c.some
    THEN [st EXCEPT !.speed = reflect(st.speed, c.v),
                    !.hp = [st.hp EXCEPT ![i] = @ - 1],
                    !.hits = Append(st.hits, i - 1)]
    ELSE st

\* variant: exhausted shards are not passed over
ShardStepNoSkip(p, r, i, st) ==
    OnContact(collides(p, r, shardEdges[i]), i, st)

\* variant: the loop stops at the frame's first contact
ShardStepFirstOnly(p, r, i, st) ==
    IF st.hp[i] < 1 \/ st.hits # <<>> THEN st
    ELSE OnContact(collides(p, r, shardEdges[i]), i, st)

\* the body of the loop over the shards, for shard i
ShardStep(p, r, i, st) ==
    IF st.hp[i] < 1 THEN st
    ELSE OnContact(collides(p, r, shardEdges[i]), i, st)

RECURSIVE ShardLoop(_, _, _, _)
ShardLoop(p, r, i, st) ==
    IF i > NumShards THEN st
    ELSE ShardLoop(p, r, i + 1, ShardStep(p, r, i, st))

\* the frame's new paddle, ball and shards for mouse delta md
\* after the paddle (now pd1) has moved and the ball (now at p1) advanced
Collisions(pd1, p1, r, v, h) ==
    ShardLoop(p1, r, 1,
              [pad |-> pd1, pos |-> p1,
               speed |-> PadBounce(p1, r, pd1, WallBounce(p1, r, v)),
               hp |-> h, hits |-> <<>>])

update(pd, p, r, v, h, md) ==
    Collisions(translate(pd, Vec(Div(I(md), I(2)), I(0))), VAdd(p, v), r, v, h)

\* the model follows the ball while its coordinates have denominators of at
\* most MaxDen
Representable(v) == v.x[2] <= MaxDen /\ v.y[2] <= MaxDen

Init ==
    /\ pad = InitPad
    /\ pos = InitPos
    /\ radius = I(BALL_R)
    /\ speed \in InitSpeeds
    /\ hp \in InitHps
    /\ hp0 = hp
    /\ hits = <<>>
    /\ frame = 0
    /\ poly = <<>>
    /\ n = None
    /\ pc = "loop"
    /\ v0 = speed

\* one iteration of main's loop: game.update(&rl)
Update(md) ==
    /\ frame < MaxFrames
    /\ Representable(pos) /\ Representable(speed)
    /\ \E f \in { update(pad, pos, radius, speed, hp, md) } :
           /\ pad' = f.pad
           /\ pos' = f.pos
           /\ speed' = f.speed
           /\ hp' = f.hp
           /\ hits' = f.hits
    /\ frame' = frame + 1
    /\ UNCHANGED <<radius, hp0, poly, n, pc, v0>>

Next == \E md \in MouseDeltas : Update(md)

Spec == Init /\ [][Next]_vars

----------------------------------------------------------------------------
(* The paddle alone: Pad::translate called with any deltas *)

PadDeltas == { -4000, -120, 120, 4000 }

PadTranslate(md) ==
    /\ pad' = translate(pad, Vec(Div(I(md), I(2)), I(0)))
    /\ UNCHANGED <<pos, radius, speed, hp, hp0, hits, frame, poly, n, pc, v0>>

NextPad == \E md \in PadDeltas : PadTranslate(md)

SpecPad == Init /\ [][NextPad]_vars

----------------------------------------------------------------------------
(* A call of Ball::collides and the reflection its caller applies *)

\* the paddle's rectangle with its left end at x = 482
Rect == <<V(482, 768), V(542, 768), V(542, 758), V(482, 758)>>

\* the same rectangle listed from its top-left corner, the other way round
RectCW == <<V(482, 758), V(542, 758), V(542, 768), V(482, 768)>>

TestPolys ==
    { Rect, RectCW,
      <<>>,
      <<V(482, 758)>>,
      <<V(482, 758), V(542, 758)>>,
      <<V(482, 768), V(542, 768), V(512, 748)>>,
      <<V(482, 768), V(542, 768), V(542, 758), V(482, 758), V(482, 758)>>,
      <<V(482, 768), V(542, 768), V(542, 768), V(542, 758), V(482, 758)>> }

TestXs == { 466, 472, 476, 478, 482, 490, 512, 542, 548, 552 }

TestYs == { 744, 748, 750, 752, 753, 758, 760, 763, 768, 774, 778 }

TestRadii == { I(BALL_R), I(BALL_R \div 2) }

TestSpeeds == { V(8, -5), Vec(Q(-7, 2), I(4)) }

InitContact ==
    /\ pad = InitPad
    /\ pos \in { V(x, y) : x \in TestXs, y \in TestYs }
    /\ radius \in TestRadii
    /\ speed \in TestSpeeds
    /\ hp = [i \in 1..NumShards |-> 1]
    /\ hp0 = hp
    /\ hits = <<>>
    /\ frame = 0
    /\ poly \in TestPolys
    /\ n = None
    /\ pc = "call"
    /\ v0 = speed

\* let r = self.ball.collides(poly)
CallCollides ==
    /\ pc = "call"
    /\ n' = collides(pos, radius, poly)
    /\ pc' = "returned"
    /\ UNCHANGED <<pad, pos, radius, speed, hp, hp0, hits, frame, poly, v0>>

\* if let Some(n) = r { self.ball.speed = reflect(self.ball.speed, n) }
Bounce ==
    /\ pc = "returned"
    /\ n.some
    /\ speed' = reflect(speed, n.v)
    /\ pc' = "reflected"
    /\ UNCHANGED <<pad, pos, radius, hp, hp0, hits, frame, poly, n, v0>>

NextContact == CallCollides \/ Bounce

SpecContact == InitContact /\ [][NextContact]_vars

----------------------------------------------------------------------------
(* reflect applied twice with the same normal *)

TestNormals ==
    { Unit(V(a, b)) : a \in -2..2, b \in -2..2 } \ { Unit(V(0, 0)) }

TestVelocities == { Vec(Q(a, 2), Q(b, 2)) : a \in {-19, -7, 0, 16}, b \in {-20, -3, 5} }

InitReflect ==
    /\ pad = InitPad
    /\ pos = InitPos
    /\ radius = I(BALL_R)
    /\ speed \in TestVelocities
    /\ hp = [i \in 1..NumShards |-> 1]
    /\ hp0 = hp
    /\ hits = <<>>
    /\ frame = 0
    /\ poly = <<>>
    /\ n \in { Some(u) : u \in TestNormals }
    /\ pc = "reflect"
    /\ v0 = speed

ReflectOnce ==
    /\ pc = "reflect"
    /\ speed' = reflect(speed, n.v)
    /\ pc' = "once"
    /\ UNCHANGED <<pad, pos, radius, hp, hp0, hits, frame, poly, n, v0>>

ReflectTwice ==
    /\ pc = "once"
    /\ speed' = reflect(speed, n.v)
    /\ pc' = "twice"
    /\ UNCHANGED <<pad, pos, radius, hp, hp0, hits, frame, poly, n, v0>>

NextReflect == ReflectOnce \/ ReflectTwice

SpecReflect == InitReflect /\ [][NextReflect]_vars

----------------------------------------------------------------------------
(* Claims *)

\* C1: after any sequence of Pad::translate calls, every paddle vertex x is
\* within [0, W].
C1_PaddleClamped ==
    \A i \in 1..Len(pad) : Ge(pad[i].x, I(0)) /\ Le(pad[i].x, I(W))

\* the ball overlaps shard i's polygon as the collision detector sees it
Touches(p, r, i) == collides(p, r, shardEdges[i]).some

\* C2: in every frame each shard's hit-points drop by exactly 1 if it was
\* live and the ball collided with it at the frame's ball position, and are
\* unchanged otherwise; they never increase and stay within 0..initial.
C2_HitPoints ==
    [][\A i \in 1..NumShards :
          /\ hp'[i] = IF hp[i] >= 1 /\ Touches(pos', radius, i)
                      THEN hp[i] - 1 ELSE hp[i]
          /\ hp'[i] <= hp[i]
          /\ 0 <= hp'[i]
          /\ hp'[i] <= hp0[i]]_vars

\* a frame in which one shard lost a hit-point and another did not
C2_Witness ==
    /\ hits # <<>>
    /\ \E i \in 1..NumShards : hp[i] = hp0[i] - 1
    /\ \E i \in 1..NumShards : hp[i] = hp0[i]

\* the ids a frame reported as hit
HitIds == { hits[k] : k \in 1..Len(hits) }

\* C3: once a shard's hit-points are 0 they stay 0, and no later frame
\* reports it hit (reflects the velocity off it), even when the ball
\* overlaps its polygon.
C3_ExhaustedForGood ==
    [][\A i \in 1..NumShards :
          hp[i] = 0 => /\ hp'[i] = 0
                       /\ (i - 1) \notin { hits'[k] : k \in 1..Len(hits') }]_vars

\* a frame, after the one that exhausted a shard, in which the ball overlaps
\* that shard's polygon and the shard is passed over
C3_Witness ==
    \E i \in 1..NumShards :
        /\ hp0[i] >= 1
        /\ hp[i] = 0
        /\ (i - 1) \notin HitIds
        /\ Touches(pos, radius, i)

\* the example scenario's inputs
C4_Scenario ==
    /\ pos = V(512, 758)
    /\ radius = I(10)
    /\ poly \in { Rect, RectCW }
    /\ v0 = V(8, -5)

\* C4 as stated: the contact normal is (0, -1) and the reflected velocity
\* is (8, 5).
C4_AsStated ==
    C4_Scenario =>
        /\ pc = "returned" => n = Some(Scaled(I(0), I(-1), I(1)))
        /\ pc = "reflected" => speed = V(8, 5)

\* C4 amended: the ball's centre lies on the top edge, so the contact is
\* reported with the fixed normal (1, 0), and the reflected velocity is
\* (-8, -5): the horizontal component flips and the vertical one is kept.
C4_Amended ==
    C4_Scenario =>
        /\ pc = "returned" => n = Some(UnitX)
        /\ pc = "reflected" => n = Some(UnitX) /\ speed = V(-8, -5)

C4_Witness == C4_Scenario /\ pc = "reflected"

\* the vertex loop has an edge whose endpoints coincide
HasZeroEdge(ply) ==
    Len(ply) >= 2 /\ \E i \in 1..Len(ply) : ply[i] = ply[(i % Len(ply)) + 1]

\* the loop without the vertices that repeat their predecessor
RECURSIVE Dedup(_)
Dedup(ply) ==
    IF Len(ply) < 2 THEN ply
    ELSE LET rest == Dedup(Tail(ply))
         IN  IF rest # <<>> /\ Head(rest) = Head(ply) THEN rest
             ELSE <<Head(ply)>> \o rest

\* C5: with a zero-length edge in the polygon, closest_point returns the
\* edge's single point, and collides returns what it returns for the
\* polygon without the duplicated vertex.
C5_DegenerateEdge ==
    (pc = "returned" /\ HasZeroEdge(poly)) =>
        /\ \A i \in 1..Len(poly) :
              poly[i] = poly[(i % Len(poly)) + 1]
                  => closest_point(pos, poly[i], poly[i]) = poly[i]
        /\ n = collides(pos, radius, Dedup(poly))

\* the polygon is one of the axis-aligned rectangles
IsRect(ply) == ply \in { Rect, RectCW }

Min(a, b) == IF Lt(a, b) THEN a ELSE b
Max(a, b) == IF Gt(a, b) THEN a ELSE b

\* the point of the rectangle nearest to p
RectNearest(p, ply) ==
    LET xmin == Min(ply[1].x, ply[3].x)
        xmax == Max(ply[1].x, ply[3].x)
        ymin == Min(ply[1].y, ply[3].y)
        ymax == Max(ply[1].y, ply[3].y)
    IN  Vec(Max(xmin, Min(p.x, xmax)), Max(ymin, Min(p.y, ymax)))

\* squared distance from p to the rectangle's nearest edge, p outside
RectDist2(p, ply) == Length2(VSub(p, RectNearest(p, ply)))

AxisUnits ==
    { Scaled(I(1), I(0), I(1)), Scaled(I(-1), I(0), I(1)),
      Scaled(I(0), I(1), I(1)), Scaled(I(0), I(-1), I(1)) }

\* the axis-aligned unit vector along d, when d is along an axis
AxisToward(d) ==
    { u \in AxisUnits : /\ Mul(u.x, d.y) = Mul(u.y, d.x)
                        /\ Gt(Add(Mul(u.x, d.x), Mul(u.y, d.y)), I(0)) }

C6_Case == pc = "returned" /\ IsRect(poly) /\ Gt(RectDist2(pos, poly), I(0))

\* C6 as stated: at distance exactly r from the nearest edge no contact; at
\* a distance in (0, r) a contact whose normal is the axis-aligned unit
\* vector from that edge toward the centre.
C6_AsStated ==
    C6_Case =>
        LET d2 == RectDist2(pos, poly)
            rr == Mul(radius, radius)
        IN  /\ d2 = rr => n = None
            /\ Lt(d2, rr) =>
                  /\ n.some
                  /\ n.v \in AxisUnits
                  /\ Gt(Dot(n.v, VSub(pos, RectNearest(pos, poly))), I(0))

\* the centre projects onto the nearest edge (it is not beyond a corner)
FacesEdge(p, ply) ==
    LET c == RectNearest(p, ply) IN c.x = p.x \/ c.y = p.y

\* C6 amended: at distance exactly r no contact; at a distance in (0, r) a
\* contact whose normal is the unit vector from the nearest point of that
\* edge toward the centre, which is the axis-aligned unit vector when the
\* centre projects onto the edge and is diagonal when the nearest point is
\* a corner.
C6_Amended ==
    C6_Case =>
        LET d2 == RectDist2(pos, poly)
            rr == Mul(radius, radius)
            d  == VSub(pos, RectNearest(pos, poly))
        IN  /\ d2 = rr => n = None
            /\ Lt(d2, rr) =>
                  /\ n = Some(Unit(d))
                  /\ FacesEdge(pos, poly) => n.v \in AxisToward(d)
                  /\ ~FacesEdge(pos, poly) => n.v \notin AxisUnits

\* a ball beyond a corner, nearer to it than r
C6_Witness ==
    /\ C6_Case
    /\ Lt(RectDist2(pos, poly), Mul(radius, radius))
    /\ ~FacesEdge(pos, poly)
    /\ n.some

SegClosest(p, a, b) == IF a = b THEN a ELSE closest_point(p, a, b)

EdgePoint(p, ply, i) == SegClosest(p, ply[i], ply[(i % Len(ply)) + 1])

EdgeDist2(p, ply, i) == Length2(VSub(p, EdgePoint(p, ply, i)))

\* the edges whose closest point is within the radius
Candidates(p, r, ply) ==
    { i \in 1..Len(ply) : Le(EdgeDist2(p, ply, i), Mul(r, r)) }

\* the first of the candidates with the largest penetration
Deepest(p, r, ply) ==
    CHOOSE i \in Candidates(p, r, ply) :
        \A j \in Candidates(p, r, ply) :
            \/ Lt(EdgeDist2(p, ply, i), EdgeDist2(p, ply, j))
            \/ EdgeDist2(p, ply, i) = EdgeDist2(p, ply, j) /\ i <= j

Selected(p, r, ply) ==
    IF Len(ply) < 2 \/ Candidates(p, r, ply) = {} THEN None
    ELSE LET i  == Deepest(p, r, ply)
             d2 == EdgeDist2(p, ply, i)
         IN  IF ~Lt(d2, Mul(r, r)) THEN None
             ELSE IF d2 = I(0) THEN Some(UnitX)
             ELSE Some(Unit(VSub(p, EdgePoint(p, ply, i))))

\* C8: collides returns the normal of the first edge of largest penetration
\* among the edges within the radius, (1, 0) at distance zero, and None for
\* fewer than 2 vertices or a best penetration that is not positive.
C8_EdgeSelection == pc = "returned" => n = Selected(pos, radius, poly)

\* the live shards the ball at p overlaps
Live(p, r, h) == { i \in 1..NumShards : h[i] >= 1 /\ Touches(p, r, i) }

\* v reflected off each shard of the set live in storage order, from i on
RECURSIVE Compose(_, _, _, _, _)
Compose(v, p, r, live, i) ==
    IF i > NumShards THEN v
    ELSE Compose(IF i \in live
                 THEN reflect(v, collides(p, r, shardEdges[i]).v) ELSE v,
                 p, r, live, i + 1)

\* the ids of the shards of the set live, in storage order, from i on
RECURSIVE Contacted(_, _)
Contacted(live, i) ==
    IF i > NumShards THEN <<>>
    ELSE (IF i \in live THEN <<i - 1>> ELSE <<>>) \o Contacted(live, i + 1)

\* the velocity after the wall bounce and then the paddle's reflection
AfterPaddle(c, vw) == IF c.some THEN reflect(vw, c.v) ELSE vw

\* C9: a frame translates the paddle, advances the ball once, applies the
\* wall bounce, then the paddle's reflection, then one reflection per live
\* shard overlapping the advanced ball, in storage order; exactly those
\* shards lose exactly one hit-point.
C9_FrameOrder ==
    [][\E md \in MouseDeltas :
       \E pd1 \in { translate(pad, Vec(Div(I(md), I(2)), I(0))) } :
       \E p1 \in { VAdd(pos, speed) } :
       \E live \in { Live(p1, radius, hp) } :
          /\ pad' = pd1
          /\ pos' = p1
          /\ speed' = Compose(AfterPaddle(collides(p1, radius, pd1),
                                          WallBounce(p1, radius, speed)),
                              p1, radius, live, 1)
          /\ hits' = Contacted(live, 1)
          /\ \A i \in 1..NumShards :
                hp'[i] = IF i \in live THEN hp[i] - 1 ELSE hp[i]]_vars

\* a frame that reflected the velocity off two shards
C9_Witness == Len(hits) >= 2

\* C10: the ball's centre stays inside [0, W] x [0, H].
C10_Confined ==
    /\ Ge(pos.x, I(0)) /\ Le(pos.x, I(W))
    /\ Ge(pos.y, I(0)) /\ Le(pos.y, I(H))

====
